---- MODULE Spec2Model ----
(***************************************************************************)
(* A model of colormap_utils.py: the XPM palette parser                    *)
(* (_parse_xpm_file), the normalizer (create_normalizer) and the value to  *)
(* colour mapping (map_values) over the registry of parsed palettes.       *)
(*                                                                         *)
(* Text is a sequence of one-character strings, a file is a sequence of    *)
(* lines.  Numbers are integers; a colour channel c stands for c / 255.    *)
(***************************************************************************)
EXTENDS Integers, Sequences, FiniteSets, TLC

(***************************************************************************)
(* Bounds of the explored inputs.                                          *)
(***************************************************************************)
MaxWidth == 2
MaxHeight == 2
MaxColors == 2
MaxCpp == 2
MaxValue == 3
MaxLen == 2
MaxPalette == 3

(***************************************************************************)
(* Characters and Python's string helpers.                                 *)
(***************************************************************************)
Q == "\""
SP == " "

\* The characters str.strip('",;}') removes (colormap_utils.py line 49).
TERMINATORS == {Q, ",", ";", "}"}

\* The characters str.strip() and str.split() treat as whitespace.
WHITESPACE == {SP, "\t"}

Min(a, b) == IF a < b THEN a ELSE b
Max(a, b) == IF a > b THEN a ELSE b

\* s[:n] for n >= 0
Take(s, n) == SubSeq(s, 1, Min(n, Len(s)))

\* s[n:] for n >= 0
Drop(s, n) == SubSeq(s, Min(n, Len(s)) + 1, Len(s))

RECURSIVE LStrip(_, _)
LStrip(s, chars) ==
  IF s # <<>> /\ Head(s) \in chars THEN LStrip(Tail(s), chars) ELSE s

RECURSIVE RStrip(_, _)
RStrip(s, chars) ==
  IF s # <<>> /\ s[Len(s)] \in chars
    THEN RStrip(SubSeq(s, 1, Len(s) - 1), chars)
    ELSE s

\* str.strip(chars): removes the characters at both ends.
Strip(s, chars) == RStrip(LStrip(s, chars), chars)

\* str.startswith for a one-character prefix.
StartsWith(s, c) == s # <<>> /\ Head(s) = c

\* str.split(): the maximal runs of non-whitespace characters, in order.
RECURSIVE SplitFrom(_, _, _)
SplitFrom(s, cur, acc) ==
  IF s = <<>>
    THEN IF cur = <<>> THEN acc ELSE Append(acc, cur)
    ELSE IF Head(s) \in WHITESPACE
           THEN SplitFrom(Tail(s), <<>>, IF cur = <<>> THEN acc ELSE Append(acc, cur))
           ELSE SplitFrom(Tail(s), Append(cur, Head(s)), acc)

Split(s) == SplitFrom(s, <<>>, <<>>)

\* The ASCII letters, in code-point order.
UPPERCASE == <<"A", "B", "C", "D", "E", "F", "G", "H", "I", "J", "K", "L", "M",
               "N", "O", "P", "Q", "R", "S", "T", "U", "V", "W", "X", "Y", "Z">>

LOWERCASE == <<"a", "b", "c", "d", "e", "f", "g", "h", "i", "j", "k", "l", "m",
               "n", "o", "p", "q", "r", "s", "t", "u", "v", "w", "x", "y", "z">>

\* str.lower() on one character: an upper-case letter becomes its lower-case
\* letter, every other character stays.
LowerChar(c) ==
  IF \E i \in 1..26 : UPPERCASE[i] = c
    THEN LOWERCASE[CHOOSE i \in 1..26 : UPPERCASE[i] = c]
    ELSE c

Lower(s) == [i \in 1..Len(s) |-> LowerChar(s[i])]

DIGITS == <<"0", "1", "2", "3", "4", "5", "6", "7", "8", "9">>

DigitValue(c) == CHOOSE d \in 0..9 : DIGITS[d + 1] = c

\* int(token) succeeds: the token is a decimal numeral.
IsInt(tok) ==
  /\ tok # <<>>
  /\ \A i \in 1..Len(tok) : \E d \in 1..10 : DIGITS[d] = tok[i]

RECURSIVE IntValue(_)
IntValue(tok) ==
  IF tok = <<>> THEN 0
  ELSE 10 * IntValue(SubSeq(tok, 1, Len(tok) - 1)) + DigitValue(tok[Len(tok)])

\* str(n) for n >= 0
RECURSIVE Decimal(_)
Decimal(n) ==
  IF n < 10 THEN <<DIGITS[n + 1]>>
  ELSE Append(Decimal(n \div 10), DIGITS[(n % 10) + 1])

(***************************************************************************)
(* matplotlib.colors.to_rgb on the colour strings the model uses:          *)
(* "#RRGGBB" and the single-letter colour names.  A channel is kept as     *)
(* its numerator over 255.                                                 *)
(***************************************************************************)
HEXDIGITS == <<"0", "1", "2", "3", "4", "5", "6", "7", "8", "9",
               "A", "B", "C", "D", "E", "F">>

IsHexDigit(c) == \E d \in 1..16 : HEXDIGITS[d] = c

HexValue(c) == CHOOSE d \in 0..15 : HEXDIGITS[d + 1] = c

IsColor(value) ==
  \/ value \in {<<"r">>, <<"b">>, <<"k">>, <<"w">>}
  \/ /\ Len(value) = 7
     /\ value[1] = "#"
     /\ \A i \in 2..7 : IsHexDigit(value[i])

to_rgb(value) ==
  CASE value = <<"r">> -> <<255, 0, 0>>
    [] value = <<"b">> -> <<0, 0, 255>>
    [] value = <<"k">> -> <<0, 0, 0>>
    [] value = <<"w">> -> <<255, 255, 255>>
    [] OTHER -> [ch \in 1..3 |->
                   16 * HexValue(value[2 * ch]) + HexValue(value[2 * ch + 1])]

(***************************************************************************)
(* _parse_xpm_file: the pure parts.                                        *)
(***************************************************************************)
\* `None`, the no-colour sentinel of the colour table.  A colour value is a
\* non-empty token, so the empty text stands for None (both are falsy).
NoColor == <<>>

\* Lines 44-49: the quoted lines, stripped of their terminators.
RECURSIVE ExtractRecords(_)
ExtractRecords(lines) ==
  IF lines = <<>> THEN <<>>
  ELSE LET stripped == Strip(Head(lines), WHITESPACE)
       IN IF StartsWith(stripped, Q)
            THEN <<Strip(stripped, TERMINATORS)>> \o ExtractRecords(Tail(lines))
            ELSE ExtractRecords(Tail(lines))

\* HeaderOK without the upper limit on the number of tokens.
HeaderOKAtLeastFour(hdr) ==
  LET tokens == Split(hdr)
  IN /\ Len(tokens) >= 4
     /\ \A i \in 1..4 : IsInt(tokens[i])

\* Line 55: map(int, header.split()) unpacks into exactly four integers.
HeaderOK(hdr) ==
  LET tokens == Split(hdr)
  IN /\ Len(tokens) = 4
     /\ \A i \in 1..4 : IsInt(tokens[i])

HeaderFields(hdr) ==
  LET tokens == Split(hdr)
  IN [width |-> IntValue(tokens[1]),
      height |-> IntValue(tokens[2]),
      color_count |-> IntValue(tokens[3]),
      chars_per_pixel |-> IntValue(tokens[4])]

\* Python's s[a:b] on a list, 0-based, for 0 <= a <= b.
Slice(s, a, b) == SubSeq(s, Min(a, Len(s)) + 1, Min(b, Len(s)))

\* Line 59
ColorRecords(recs, h) == Slice(recs, 1, 1 + h.color_count)

\* Line 60
PixelRecords(recs, h) ==
  Slice(recs, 1 + h.color_count, 1 + h.color_count + h.height)

\* tokens.index("c"): the position of the first token "c".
IndexOfC(tokens) ==
  CHOOSE i \in 1..Len(tokens) :
    /\ tokens[i] = <<"c">>
    /\ \A j \in 1..(i - 1) : tokens[j] # <<"c">>

\* EntryColor taking only "none" in lower case for the no-colour value.
EntryColorCaseSensitive(entry, cpp) ==
  LET remainder == Strip(Drop(entry, cpp), WHITESPACE)
      tokens == Split(remainder)
  IN IF \E i \in 1..Len(tokens) : tokens[i] = <<"c">>
       THEN LET idx == IndexOfC(tokens)
            IN IF idx + 1 <= Len(tokens) /\ tokens[idx + 1] # <<"n", "o", "n", "e">>
                 THEN tokens[idx + 1]
                 ELSE NoColor
       ELSE NoColor

\* Lines 65-73: the colour value of one colour-table entry.
EntryColor(entry, cpp) ==
  LET remainder == Strip(Drop(entry, cpp), WHITESPACE)
      tokens == Split(remainder)
  IN IF \E i \in 1..Len(tokens) : tokens[i] = <<"c">>
       THEN LET idx == IndexOfC(tokens)
            IN IF idx + 1 <= Len(tokens) /\ Lower(tokens[idx + 1]) # <<"n", "o", "n", "e">>
                 THEN tokens[idx + 1]
                 ELSE NoColor
       ELSE NoColor

\* Line 74: color_table[symbol] = hex_color
Assign(table, key, value) ==
  [k \in DOMAIN table \cup {key} |-> IF k = key THEN value ELSE table[k]]

\* Lines 62-74: the colour table of the colour records, later entries winning.
RECURSIVE BuildColorTable(_, _, _)
BuildColorTable(entries, cpp, table) ==
  IF entries = <<>> THEN table
  ELSE BuildColorTable(Tail(entries), cpp,
         Assign(table, Take(Head(entries), cpp), EntryColor(Head(entries), cpp)))

\* color_table.get(symbol)
Get(table, symbol) == IF symbol \in DOMAIN table THEN table[symbol] ELSE NoColor

\* ScanRow putting each colour in front of the list instead of at its end.
RECURSIVE ScanRowPrepending(_, _, _, _)
ScanRowPrepending(line, cpp, table, acc) ==
  IF line = <<>> THEN [ok |-> TRUE, colors |-> acc]
  ELSE LET hex_color == Get(table, Take(line, cpp))
       IN IF hex_color = NoColor
            THEN ScanRowPrepending(Drop(line, cpp), cpp, table, acc)
            ELSE IF IsColor(hex_color)
                   THEN ScanRowPrepending(Drop(line, cpp), cpp, table,
                                          <<to_rgb(hex_color)>> \o acc)
                   ELSE [ok |-> FALSE, colors |-> acc]

\* Lines 82-88: the colours one pixel row appends, chunk by chunk, left to
\* right; ok is FALSE when to_rgb rejects a colour value.
RECURSIVE ScanRow(_, _, _, _)
ScanRow(line, cpp, table, acc) ==
  IF line = <<>> THEN [ok |-> TRUE, colors |-> acc]
  ELSE LET hex_color == Get(table, Take(line, cpp))
       IN IF hex_color = NoColor
            THEN ScanRow(Drop(line, cpp), cpp, table, acc)
            ELSE IF IsColor(hex_color)
                   THEN ScanRow(Drop(line, cpp), cpp, table,
                                Append(acc, to_rgb(hex_color)))
                   ELSE [ok |-> FALSE, colors |-> acc]

(***************************************************************************)
(* The input files of the parser.                                          *)
(***************************************************************************)
\* A file line holding a string literal, as the palette files write it.
Quoted(content) == <<Q>> \o content \o <<Q, ",">>

CommentLine == <<"/", "*", SP, "X", "P", "M", SP, "*", "/">>

RECURSIVE Join(_)
Join(tokens) ==
  IF tokens = <<>> THEN <<>>
  ELSE IF Len(tokens) = 1 THEN Head(tokens)
  ELSE Head(tokens) \o <<SP>> \o Join(Tail(tokens))

HeaderText(w, h, cc, cpp) ==
  Join(<<Decimal(w), Decimal(h), Decimal(cc), Decimal(cpp)>>)

GoodHeaders ==
  {HeaderText(w, h, cc, cpp) :
     w \in 0..MaxWidth, h \in 0..MaxHeight, cc \in 0..MaxColors, cpp \in 0..MaxCpp}

\* Three tokens, five tokens, a token that is no integer.
BadHeaders ==
  {Join(<<Decimal(1), Decimal(1), Decimal(1)>>),
   Join(<<Decimal(1), Decimal(1), Decimal(1), Decimal(1), Decimal(1)>>),
   Join(<<Decimal(1), <<"x">>, Decimal(1), Decimal(1)>>)}

RED == <<"#", "F", "F", "0", "0", "0", "0">>
BLUE == <<"#", "0", "0", "0", "0", "F", "F">>

\* Colour-table lines.  Read with one character per pixel their symbols are
\* a, b, b, a; read with two they are ab, ba, bb, ab.  The last one names a
\* colour to_rgb rejects.
EntryTexts ==
  {<<"a", "b", SP, "c", SP>> \o RED,
   <<"b", "a", SP, "c", SP>> \o BLUE,
   <<"b", "b", SP, "c", SP, "N", "o", "n", "e">>,
   <<"a", "b", SP, "c", SP, "x">>}

RowTexts ==
  {<<>>, <<"a", "b">>, <<"b", "a">>, <<"a", "b", "b", "a">>}

SeqsUpTo(S, n) == UNION {[1..k -> S] : k \in 0..n}

\* A file: a comment line, the header, colour entries, pixel rows.
XpmFile(hdr, es, rs) ==
  <<CommentLine, Quoted(hdr)>>
    \o [i \in 1..Len(es) |-> Quoted(es[i])]
    \o [i \in 1..Len(rs) |-> Quoted(rs[i])]

\* Characters str.strip('",;}') removes that an XPM file may use as pixel
\* symbols.
PunctSymbols == {",", ";", "}"}

\* Files of one row of one or two pixels, one character per pixel, whose one
\* colour entry has a punctuation symbol; the row mixes it with "a".
PunctFiles ==
  {XpmFile(HeaderText(Len(r), 1, 1, 1), << <<sy, SP, "c", SP>> \o RED >>, <<r>>) :
     sy \in PunctSymbols,
     r \in {<<",">>, <<";">>, <<"}">>, <<"a", ",">>, <<",", "a">>,
            <<";", "a">>, <<"a", "}">>, <<",", ",">>}}

\* What follows the symbol in a colour-table line: the colour key "c" with a
\* colour, with a spelling of None, with nothing after it, after another key,
\* twice; no key "c" at all; tabs between the tokens.
EntryTails ==
  {<<SP, "c", SP>> \o RED,
   <<"\t", "c", "\t">> \o BLUE,
   <<SP, "c">>,
   <<SP, "c", SP, "n", "o", "n", "e">>,
   <<SP, "c", SP, "N", "O", "N", "E">>,
   <<SP, "c", SP, "n", "O", "n", "E">>,
   <<SP, "m", SP>> \o BLUE,
   <<SP, "m", SP>> \o BLUE \o <<SP, "c", SP>> \o RED,
   <<SP, "c", SP>> \o RED \o <<SP, "c", SP>> \o BLUE,
   <<SP, "c", "c", SP>> \o RED,
   <<>>}

\* Files of one pixel, one character per pixel, with one or two colour
\* entries for the symbols "a" and "c".
EntryFiles ==
  {XpmFile(HeaderText(1, 1, Len(es), 1), es, <<r>>) :
     es \in {<< <<"a">> \o t >> : t \in EntryTails}
          \cup {<< <<sy>> \o t, <<"a">> \o u >> :
                  sy \in {"a", "c"}, t \in EntryTails, u \in EntryTails},
     r \in {<<"a">>, <<"c">>}}

(***************************************************************************)
(* State.                                                                  *)
(***************************************************************************)
VARIABLES
  raw_lines,     \* _parse_xpm_file: the lines of the file being parsed
  pc,            \* the position of the call in progress
  records,       \* _parse_xpm_file: records
  header,        \* width, height, color_count, chars_per_pixel
  color_table,   \* _parse_xpm_file: color_table
  colors_list,   \* _parse_xpm_file: colors_list
  row,           \* the number of pixel records the loop of line 77 has taken
  error,         \* the exception the call raised, if any
  palette,       \* the colours of the ListedColormap the call returned
  COLORMAP_DIR,  \* the *.xpm files of ./colormaps: stem and lines of each
  CUSTOM_COLORMAPS,  \* the registry: lowercase name -> colours of the palette
  call,          \* the arguments of the create_normalizer / map_values call
  norm,          \* the Normalize object the call built
  rgba           \* the colours map_values returned

parseVars == <<raw_lines, records, header, color_table, colors_list, row, palette>>

apiVars == <<CUSTOM_COLORMAPS, call, norm, rgba>>

vars == <<raw_lines, pc, records, header, color_table, colors_list, row,
          error, palette, COLORMAP_DIR, CUSTOM_COLORMAPS, call, norm, rgba>>

NoError == [type |-> "none", kind |-> "none", expected |-> 0, actual |-> 0]

ValueError(kind) ==
  [type |-> "ValueError", kind |-> kind, expected |-> 0, actual |-> 0]

LengthMismatch(expected, actual) ==
  [type |-> "ValueError", kind |-> "LengthMismatch",
   expected |-> expected, actual |-> actual]

NoHeader == [width |-> 0, height |-> 0, color_count |-> 0, chars_per_pixel |-> 0]

EmptyTable == [k \in {} |-> NoColor]

\* Lines 119-121: the KeyError of get_colormap; its message holds the name
\* as the caller wrote it and the names list_available_colormaps() returns.
KeyError(name, available) ==
  [type |-> "KeyError", kind |-> "NotFound", expected |-> 0, actual |-> 0,
   name |-> name, available |-> available]

\* An optional number: not passed by the caller, passed as None, or a number.
Omitted == [tag |-> "omitted", val |-> 0]
None == [tag |-> "None", val |-> 0]
Num(x) == [tag |-> "num", val |-> x]

\* The `data` argument: None, or the items of the iterable.
DataNone == [given |-> FALSE, items |-> <<>>]
Data(items) == [given |-> TRUE, items |-> items]

NoNorm == [built |-> FALSE, vmin |-> 0, vmax |-> 0, clip |-> FALSE]

\* Normalize(vmin=vmin, vmax=vmax, clip=clip)
Normalize(vmin, vmax, clip) ==
  [built |-> TRUE, vmin |-> vmin, vmax |-> vmax, clip |-> clip]

NoCall ==
  [op |-> "none", vmin |-> Omitted, vmax |-> Omitted, data |-> DataNone,
   clip |-> TRUE, values |-> <<>>, colormap |-> <<>>, autorange |-> TRUE]

(***************************************************************************)
(* _parse_xpm_file: the call.                                              *)
(***************************************************************************)
\* ScanRows passing over a row of the wrong length instead of raising.
RECURSIVE ScanRowsSkippingBadRows(_, _, _, _, _)
ScanRowsSkippingBadRows(rows, h, table, taken, acc) ==
  IF taken = Len(rows)
    THEN [row |-> taken, colors_list |-> acc, error |-> NoError]
    ELSE LET line == rows[taken + 1]
             expected == h.width * h.chars_per_pixel
         IN IF Len(line) # expected
              THEN ScanRowsSkippingBadRows(rows, h, table, taken + 1, acc)
              ELSE IF h.chars_per_pixel = 0
                THEN [row |-> taken + 1, colors_list |-> acc,
                      error |-> ValueError("RangeStep")]
                ELSE LET scan == ScanRow(line, h.chars_per_pixel, table, acc)
                     IN IF scan.ok
                          THEN ScanRowsSkippingBadRows(rows, h, table, taken + 1,
                                                       scan.colors)
                          ELSE [row |-> taken + 1, colors_list |-> scan.colors,
                                error |-> ValueError("InvalidColor")]

\* Lines 77-88: the loop over pixel_records from record number `taken` + 1
\* on, until a row raises or the records are exhausted.
RECURSIVE ScanRows(_, _, _, _, _)
ScanRows(rows, h, table, taken, acc) ==
  IF taken = Len(rows)
    THEN [row |-> taken, colors_list |-> acc, error |-> NoError]
    ELSE LET line == rows[taken + 1]
             expected == h.width * h.chars_per_pixel
         IN IF Len(line) # expected
              THEN [row |-> taken + 1, colors_list |-> acc,
                    error |-> LengthMismatch(expected, Len(line))]
              ELSE IF h.chars_per_pixel = 0
                \* range(0, len(line), 0)
                THEN [row |-> taken + 1, colors_list |-> acc,
                      error |-> ValueError("RangeStep")]
                ELSE LET scan == ScanRow(line, h.chars_per_pixel, table, acc)
                     IN IF scan.ok
                          THEN ScanRows(rows, h, table, taken + 1, scan.colors)
                          ELSE [row |-> taken + 1, colors_list |-> scan.colors,
                                error |-> ValueError("InvalidColor")]

\* The locals of a call of _parse_xpm_file as they stand when it returns or
\* raises; `palette` holds the colours of the ListedColormap it returns.
Locals(recs, h, table, colors, taken, err, pal) ==
  [records |-> recs, header |-> h, color_table |-> table,
   colors_list |-> colors, row |-> taken, error |-> err, palette |-> pal]

\* Lines 90-93, and a raise out of the loop of lines 77-88.
ParseResult(recs, h, table, scan) ==
  IF scan.error # NoError
    THEN Locals(recs, h, table, scan.colors_list, scan.row, scan.error, <<>>)
  ELSE IF scan.colors_list = <<>>
    THEN Locals(recs, h, table, <<>>, scan.row, ValueError("NoColors"), <<>>)
  ELSE Locals(recs, h, table, scan.colors_list, scan.row, NoError,
              scan.colors_list)

\* Lines 76-93
ParsePixels(recs, h, table) ==
  ParseResult(recs, h, table, ScanRows(PixelRecords(recs, h), h, table, 0, <<>>))

\* Lines 59-93
ParseBody(recs, h) ==
  ParsePixels(recs, h,
    BuildColorTable(ColorRecords(recs, h), h.chars_per_pixel, EmptyTable))

\* Lines 50-93
ParseRecords(recs) ==
  IF recs = <<>>
    THEN Locals(recs, NoHeader, EmptyTable, <<>>, 0, ValueError("NoData"), <<>>)
  ELSE IF ~HeaderOK(recs[1])
    THEN Locals(recs, NoHeader, EmptyTable, <<>>, 0, ValueError("BadHeader"), <<>>)
  ELSE ParseBody(recs, HeaderFields(recs[1]))

\* Lines 36-93
parse_xpm_file(lines) == ParseRecords(ExtractRecords(lines))

ParseInit ==
  /\ \/ raw_lines = <<CommentLine>>
     \/ raw_lines \in PunctFiles
     \/ raw_lines \in EntryFiles
     \/ \E hdr \in GoodHeaders \cup BadHeaders,
           es \in SeqsUpTo(EntryTexts, MaxColors),
           rs \in SeqsUpTo(RowTexts, MaxHeight) :
          raw_lines = XpmFile(hdr, es, rs)
  /\ pc = "call"
  /\ records = <<>>
  /\ header = NoHeader
  /\ color_table = EmptyTable
  /\ colors_list = <<>>
  /\ row = 0
  /\ error = NoError
  /\ palette = <<>>
  /\ COLORMAP_DIR = {}
  /\ CUSTOM_COLORMAPS = EmptyTable
  /\ call = NoCall
  /\ norm = NoNorm
  /\ rgba = <<>>

\* One call of _parse_xpm_file on the file.
Parse ==
  /\ pc = "call"
  /\ \E r \in {parse_xpm_file(raw_lines)} :
       /\ records' = r.records
       /\ header' = r.header
       /\ color_table' = r.color_table
       /\ colors_list' = r.colors_list
       /\ row' = r.row
       /\ error' = r.error
       /\ palette' = r.palette
       /\ pc' = IF r.error = NoError THEN "returned" ELSE "raised"
  /\ UNCHANGED <<raw_lines, COLORMAP_DIR>>
  /\ UNCHANGED apiVars

ParseNext == Parse

SpecParse == ParseInit /\ [][ParseNext]_vars

(***************************************************************************)
(* The registry: _load_all_colormaps over the files of the directory.      *)
(***************************************************************************)
\* The characters of file names, in code-point order: the upper-case
\* letters come before the lower-case ones.
CODEPOINTS == UPPERCASE \o LOWERCASE

CharCode(c) == CHOOSE i \in 1..Len(CODEPOINTS) : CODEPOINTS[i] = c

\* Python's < on strings.
RECURSIVE StrLess(_, _)
StrLess(a, b) ==
  IF b = <<>> THEN FALSE
  ELSE IF a = <<>> THEN TRUE
  ELSE IF Head(a) = Head(b) THEN StrLess(Tail(a), Tail(b))
  ELSE CharCode(Head(a)) < CharCode(Head(b))

\* Sorted with the files in descending order.
RECURSIVE SortedDescending(_)
SortedDescending(files) ==
  IF files = {} THEN <<>>
  ELSE LET first == CHOOSE f \in files :
                      \A g \in files : g = f \/ StrLess(g.stem, f.stem)
       IN <<first>> \o SortedDescending(files \ {first})

\* Line 97: sorted(directory.glob("*.xpm")), the files in file-name order.
\* The files have one parent and one suffix, and a stem of letters, so the
\* order of their paths is the order of their stems.
RECURSIVE Sorted(_)
Sorted(files) ==
  IF files = {} THEN <<>>
  ELSE LET first == CHOOSE f \in files :
                      \A g \in files : g = f \/ StrLess(f.stem, g.stem)
       IN <<first>> \o Sorted(files \ {first})

\* Lines 100-104: the loop over the files; a file that does not parse ends it.
RECURSIVE LoadFiles(_, _)
RECURSIVE LoadFile(_, _, _)
LoadFiles(files, collection) ==
  IF files = <<>> THEN [error |-> NoError, collection |-> collection]
  ELSE LoadFile(files, collection, parse_xpm_file(Head(files).lines))

\* Lines 102-103
LoadFile(files, collection, cmap) ==
  IF cmap.error # NoError
    THEN [error |-> cmap.error, collection |-> collection]
    ELSE LoadFiles(Tail(files),
                   Assign(collection, Lower(Head(files).stem), cmap.palette))

\* Lines 96-104
load_all_colormaps(directory) ==
  IF directory = {}
    THEN [error |-> [type |-> "FileNotFoundError", kind |-> "NoFiles",
                     expected |-> 0, actual |-> 0],
          collection |-> EmptyTable]
    ELSE LoadFiles(Sorted(directory), EmptyTable)

\* Palette files of n colours, as the files of ./colormaps are written: one
\* row of n pixels, one character per pixel, each symbol with its own colour.
RAMP ==
  << <<"#", "F", "F", "0", "0", "0", "0">>, <<"#", "0", "0", "F", "F", "0", "0">>,
     <<"#", "0", "0", "0", "0", "F", "F">>, <<"#", "F", "F", "F", "F", "0", "0">>,
     <<"#", "0", "0", "F", "F", "F", "F">>, <<"#", "F", "F", "0", "0", "F", "F">> >>

SYMBOLS == <<"a", "b", "d", "e", "f", "g">>

PaletteFile(order) ==
  XpmFile(HeaderText(Len(order), 1, Len(order), 1),
          [i \in 1..Len(order) |-> <<SYMBOLS[i], SP, "c", SP>> \o RAMP[order[i]]],
          <<[i \in 1..Len(order) |-> SYMBOLS[i]]>>)

VIRIDIS == <<"V", "i", "r", "i", "d", "i", "s">>
MAGMA == <<"m", "a", "g", "m", "a">>
JET == <<"j", "e", "t">>

\* ./colormaps with two palettes of n colours, the second one reversed.
ColormapDir(n) ==
  {[stem |-> VIRIDIS, lines |-> PaletteFile([i \in 1..n |-> i])],
   [stem |-> MAGMA, lines |-> PaletteFile([i \in 1..n |-> n + 1 - i])]}

\* The import of the module on a directory of files (line 107).
\* File stems, three of them lowering to one key.
Stems ==
  {<<"J", "E", "T">>, <<"J", "e", "t">>, <<"j", "e", "t">>, MAGMA}

\* What a file holds: three palettes, a file without a quoted line and a file
\* with a header of three integers.
Contents ==
  {PaletteFile(<<1>>), PaletteFile(<<2, 1>>), PaletteFile(<<3, 2, 1>>),
   <<CommentLine>>,
   XpmFile(Join(<<Decimal(1), Decimal(1), Decimal(1)>>), <<>>, <<>>)}

LoadInit ==
  /\ \E S \in SUBSET Stems :
       \E holds \in [S -> Contents] :
         COLORMAP_DIR = {[stem |-> st, lines |-> holds[st]] : st \in S}
  /\ CUSTOM_COLORMAPS = EmptyTable
  /\ pc = "call"
  /\ error = NoError
  /\ call = NoCall
  /\ norm = NoNorm
  /\ rgba = <<>>
  /\ raw_lines = <<>>
  /\ records = <<>>
  /\ header = NoHeader
  /\ color_table = EmptyTable
  /\ colors_list = <<>>
  /\ row = 0
  /\ palette = <<>>

\* Line 107: CUSTOM_COLORMAPS = _load_all_colormaps(COLORMAP_DIR); the name
\* is bound only when the call returns.
Load ==
  /\ pc = "call"
  /\ \E r \in {load_all_colormaps(COLORMAP_DIR)} :
       /\ CUSTOM_COLORMAPS' = IF r.error = NoError THEN r.collection
                                                  ELSE CUSTOM_COLORMAPS
       /\ error' = r.error
       /\ pc' = IF r.error = NoError THEN "returned" ELSE "raised"
  /\ UNCHANGED <<COLORMAP_DIR, call, norm, rgba>>
  /\ UNCHANGED parseVars

LoadNext == Load

SpecLoad == LoadInit /\ [][LoadNext]_vars

(***************************************************************************)
(* create_normalizer                                                       *)
(***************************************************************************)
\* A parameter with a default value: the default stands for an argument the
\* caller does not pass.
Bind(arg, default) == IF arg = Omitted THEN default ELSE arg

\* data_array.min() / data_array.max() of a non-empty array
RECURSIVE ArrayMin(_)
ArrayMin(items) ==
  IF Len(items) = 1 THEN items[1]
  ELSE Min(Head(items), ArrayMin(Tail(items)))

RECURSIVE ArrayMax(_)
ArrayMax(items) ==
  IF Len(items) = 1 THEN items[1]
  ELSE Max(Head(items), ArrayMax(Tail(items)))

\* Lines 153-157
InferVmin(vmin, data) ==
  IF vmin = None
    THEN IF data.given THEN ArrayMin(data.items) ELSE 0
    ELSE vmin.val

\* Lines 158-162
InferVmax(vmax, data) ==
  IF vmax = None
    THEN IF data.given THEN ArrayMax(data.items) ELSE 1
    ELSE vmax.val

\* CheckedNormalize without the test of lines 163-164.
UncheckedNormalize(vmin, vmax, clip) ==
  [error |-> NoError, norm |-> Normalize(vmin, vmax, clip)]

\* CheckedNormalize refusing vmax below vmin as well.
CheckedNormalizeOrdered(vmin, vmax, clip) ==
  IF vmax <= vmin
    THEN [error |-> ValueError("EqualBounds"), norm |-> NoNorm]
    ELSE [error |-> NoError, norm |-> Normalize(vmin, vmax, clip)]

\* Lines 163-165
CheckedNormalize(vmin, vmax, clip) ==
  IF vmax = vmin
    THEN [error |-> ValueError("EqualBounds"), norm |-> NoNorm]
    ELSE [error |-> NoError, norm |-> Normalize(vmin, vmax, clip)]

\* Lines 145-165, the parameters bound
NormalizerOf(vmin, vmax, data, clip) ==
  IF data.given /\ data.items = <<>>
    THEN [error |-> ValueError("EmptyData"), norm |-> NoNorm]
    ELSE CheckedNormalize(InferVmin(vmin, data), InferVmax(vmax, data), clip)

\* create_normalizer with None as the default of vmin and vmax.
create_normalizer_default_none(vmin, vmax, data, clip) ==
  NormalizerOf(Bind(vmin, None), Bind(vmax, None), data, clip)

\* Lines 125-165: vmin=0.0, vmax=1.0, data=None, clip=True are the defaults.
create_normalizer(vmin, vmax, data, clip) ==
  NormalizerOf(Bind(vmin, Num(0)), Bind(vmax, Num(1)), data, clip)

(***************************************************************************)
(* map_values                                                              *)
(***************************************************************************)
\* Normalized dividing by vmax instead of vmax - vmin.
NormalizedByVmax(n, x) ==
  LET clipped == IF n.clip THEN Max(n.vmin, Min(x, n.vmax)) ELSE x
  IN [num |-> clipped - n.vmin, den |-> n.vmax]

\* Normalize.__call__ on one value, as the fraction num / den: the value is
\* clipped to [vmin, vmax] when clip is set, then (x - vmin) / (vmax - vmin).
Normalized(n, x) ==
  LET clipped == IF n.clip THEN Max(n.vmin, Min(x, n.vmax)) ELSE x
  IN [num |-> clipped - n.vmin, den |-> n.vmax - n.vmin]

\* LookupIndex scaling by N - 1 instead of N.
LookupIndexLastStep(t, N) ==
  IF t.num < 0 THEN 0
  ELSE IF t.num >= t.den THEN N - 1
  ELSE (t.num * (N - 1)) \div t.den

\* LookupIndex counting the colours from the last one.
LookupIndexFromLast(t, N) ==
  IF t.num < 0 THEN N - 1
  ELSE IF t.num >= t.den THEN 0
  ELSE N - 1 - ((t.num * N) \div t.den)

\* Colormap.__call__ on a float t = num / den, den > 0, for a lookup table of
\* N colours: t * N truncated, t = 1 and everything above taking the last
\* colour and everything below 0 the first.
LookupIndex(t, N) ==
  IF t.num < 0 THEN 0
  ELSE IF t.num >= t.den THEN N - 1
  ELSE (t.num * N) \div t.den

\* One RGBA colour of the result, alpha = 1.0.
Rgba(colors, t) == Append(colors[LookupIndex(t, Len(colors)) + 1], 255)

\* DataForNorm without the test of autorange.
DataForNormAlways(values, vmin, vmax, autorange) ==
  IF vmin = None \/ vmax = None THEN Data(values) ELSE DataNone

\* Line 192
DataForNorm(values, vmin, vmax, autorange) ==
  IF autorange /\ (vmin = None \/ vmax = None) THEN Data(values) ELSE DataNone

\* sorted(names): the names in ascending order.
RECURSIVE SortedNames(_)
SortedNames(names) ==
  IF names = {} THEN <<>>
  ELSE LET first == CHOOSE n \in names : \A m \in names : m = n \/ StrLess(n, m)
       IN <<first>> \o SortedNames(names \ {first})

\* Lines 110-112: tuple(sorted(CUSTOM_COLORMAPS.keys()))
list_available_colormaps == SortedNames(DOMAIN CUSTOM_COLORMAPS)

\* get_colormap looking the name up as it is written.
get_colormap_exact(name) ==
  IF name \notin DOMAIN CUSTOM_COLORMAPS
    THEN [error |-> KeyError(name, list_available_colormaps), cmap |-> <<>>]
    ELSE [error |-> NoError, cmap |-> CUSTOM_COLORMAPS[name]]

\* Lines 115-122: get_colormap
get_colormap(name) ==
  IF Lower(name) \notin DOMAIN CUSTOM_COLORMAPS
    THEN [error |-> KeyError(name, list_available_colormaps), cmap |-> <<>>]
    ELSE [error |-> NoError, cmap |-> CUSTOM_COLORMAPS[Lower(name)]]

\* Line 195: cmap(norm(arr)).  Normalize.__call__ raises when vmin > vmax.
ColorsOf(values, n, cmap) ==
  IF n.vmin > n.vmax
    THEN [error |-> ValueError("MinAboveMax"), norm |-> n, rgba |-> <<>>]
    ELSE [error |-> NoError, norm |-> n,
          rgba |-> [i \in 1..Len(values) |-> Rgba(cmap, Normalized(n, values[i]))]]

\* Lines 194-195
MapWithNorm(values, n, got) ==
  IF got.error # NoError
    THEN [error |-> got.error, norm |-> n, rgba |-> <<>>]
    ELSE ColorsOf(values, n, got.cmap)

\* Lines 193-195: the normalizer is built before the palette is looked up.
MapWith(values, colormap, made) ==
  IF made.error # NoError
    THEN [error |-> made.error, norm |-> made.norm, rgba |-> <<>>]
    ELSE MapWithNorm(values, made.norm, get_colormap(colormap))

\* Lines 191-195, the parameters bound; line 193 leaves clip at its default.
MapBound(values, colormap, vmin, vmax, autorange) ==
  MapWith(values, colormap,
          create_normalizer(vmin, vmax,
                            DataForNorm(values, vmin, vmax, autorange), TRUE))

\* Lines 168-195: vmin=None, vmax=None, autorange=True are the defaults.
map_values(values, colormap, vmin, vmax, autorange) ==
  MapBound(values, colormap, Bind(vmin, None), Bind(vmax, None), autorange)

(***************************************************************************)
(* Calls of create_normalizer and map_values on the loaded module.         *)
(***************************************************************************)
Values == 0..MaxValue

Bounds == {Omitted, None} \cup {Num(x) : x \in Values}

CreateNormalizerCalls ==
  {[op |-> "create_normalizer", vmin |-> lo, vmax |-> hi, data |-> d,
    clip |-> c, values |-> <<>>, colormap |-> <<>>, autorange |-> TRUE] :
     lo \in Bounds, hi \in Bounds,
     d \in {DataNone} \cup {Data(items) : items \in SeqsUpTo(Values, MaxLen)},
     c \in BOOLEAN}

MapValuesCalls ==
  {[op |-> "map_values", vmin |-> lo, vmax |-> hi, data |-> DataNone,
    clip |-> TRUE, values |-> v, colormap |-> name, autorange |-> a] :
     lo \in Bounds, hi \in Bounds, v \in SeqsUpTo(Values, MaxLen),
     name \in {<<"v", "i", "r", "i", "d", "i", "s">>,
               <<"M", "a", "g", "m", "a">>, JET},
     a \in BOOLEAN}

\* Spellings of the registered names, and names that are not registered.
Names ==
  {<<"v", "i", "r", "i", "d", "i", "s">>, VIRIDIS,
   <<"V", "I", "R", "I", "D", "I", "S">>, <<"v", "i", "R", "i", "d", "I", "s">>,
   MAGMA, <<"M", "a", "g", "m", "a">>, <<"M", "A", "G", "M", "A">>,
   JET, <<"J", "e", "t">>, <<"m", "a", "g", "m">>, <<"v", "i", "r", "i", "d", "i", "s", "s">>,
   <<>>}

GetColormapCalls ==
  {[op |-> "get_colormap", vmin |-> Omitted, vmax |-> Omitted, data |-> DataNone,
    clip |-> TRUE, values |-> <<>>, colormap |-> name, autorange |-> TRUE] :
     name \in Names}

ApiInit ==
  /\ \E n \in 1..MaxPalette :
       /\ COLORMAP_DIR = ColormapDir(n)
       /\ CUSTOM_COLORMAPS = load_all_colormaps(ColormapDir(n)).collection
  /\ call \in CreateNormalizerCalls \cup MapValuesCalls \cup GetColormapCalls
  /\ pc = "call"
  /\ error = NoError
  /\ norm = NoNorm
  /\ rgba = <<>>
  /\ raw_lines = <<>>
  /\ records = <<>>
  /\ header = NoHeader
  /\ color_table = EmptyTable
  /\ colors_list = <<>>
  /\ row = 0
  /\ palette = <<>>

\* One call of create_normalizer.
CreateNormalizer ==
  /\ pc = "call"
  /\ call.op = "create_normalizer"
  /\ \E r \in {create_normalizer(call.vmin, call.vmax, call.data, call.clip)} :
       /\ norm' = r.norm
       /\ error' = r.error
       /\ pc' = IF r.error = NoError THEN "returned" ELSE "raised"
  /\ UNCHANGED <<COLORMAP_DIR, CUSTOM_COLORMAPS, call, rgba>>
  /\ UNCHANGED parseVars

\* One call of map_values.
MapValues ==
  /\ pc = "call"
  /\ call.op = "map_values"
  /\ \E r \in {map_values(call.values, call.colormap, call.vmin, call.vmax,
                          call.autorange)} :
       /\ norm' = r.norm
       /\ rgba' = r.rgba
       /\ error' = r.error
       /\ pc' = IF r.error = NoError THEN "returned" ELSE "raised"
  /\ UNCHANGED <<COLORMAP_DIR, CUSTOM_COLORMAPS, call>>
  /\ UNCHANGED parseVars

\* One call of get_colormap; `palette` takes the colours of the palette it
\* returns.
GetColormap ==
  /\ pc = "call"
  /\ call.op = "get_colormap"
  /\ \E r \in {get_colormap(call.colormap)} :
       /\ palette' = r.cmap
       /\ error' = r.error
       /\ pc' = IF r.error = NoError THEN "returned" ELSE "raised"
  /\ UNCHANGED apiVars
  /\ UNCHANGED <<raw_lines, records, header, color_table, colors_list, row,
                 COLORMAP_DIR>>

ApiNext ==
  \/ CreateNormalizer
  \/ MapValues
  \/ GetColormap

SpecApi == ApiInit /\ [][ApiNext]_vars

(***************************************************************************)
(* Properties of _parse_xpm_file.                                          *)
(***************************************************************************)
ParseDone == pc \in {"returned", "raised"}

\* The header record was accepted, so `header` holds its four integers.
HeaderRead == ParseDone /\ error.kind \notin {"NoData", "BadHeader"}

\* The k-th record after the header and the colour records.
PixelRow(k) == records[1 + header.color_count + k]

\* The pixel-row records that are present, at most `height` of them.
PresentRows ==
  {k \in 1..header.height : 1 + header.color_count + k <= Len(records)}

RowLength == header.width * header.chars_per_pixel

\* Every colour value of the table is one to_rgb accepts.
TableColorsValid ==
  \A s \in DOMAIN color_table :
    color_table[s] = NoColor \/ IsColor(color_table[s])

\* Header, color_count colour entries, height pixel rows of the right length;
\* a pixel takes at least one character.
WellFormed ==
  /\ HeaderRead
  /\ header.chars_per_pixel >= 1
  /\ Len(records) >= 1 + header.color_count + header.height
  /\ \A k \in 1..header.height : Len(PixelRow(k)) = RowLength
  /\ TableColorsValid

\* The n-th chunk of the image, rows top to bottom, each row left to right.
Chunk(n) ==
  LET k == ((n - 1) \div header.width) + 1
      j == ((n - 1) % header.width) + 1
  IN SubSeq(PixelRow(k), (j - 1) * header.chars_per_pixel + 1,
            j * header.chars_per_pixel)

Chunks == [n \in 1..(header.width * header.height) |-> Chunk(n)]

HasColor(chunk) == chunk \in DOMAIN color_table /\ color_table[chunk] # NoColor

ExpectedPalette ==
  LET kept == SelectSeq(Chunks, HasColor)
  IN [i \in 1..Len(kept) |-> to_rgb(color_table[kept[i]])]

\* The scenario of the specification at half its width: header "2 2 2 1",
\* a = red, b = blue, rows "ab" and "ba".
ScenarioFile ==
  XpmFile(HeaderText(2, 2, 2, 1),
          << <<"a", "b", SP, "c", SP>> \o RED, <<"b", "a", SP, "c", SP>> \o BLUE >>,
          << <<"a", "b">>, <<"b", "a">> >>)

\* C1 as stated, for images of at least one pixel: on every well-formed input
\* parse returns the colours of the chunks, row by row and left to right,
\* leaving out the chunks that map to the no-colour sentinel or are missing
\* from the table.
C1_ParseReturnsChunkColors ==
  (WellFormed /\ header.width >= 1 /\ header.height >= 1)
    => (pc = "returned" /\ palette = ExpectedPalette)

\* C1 amended: on every well-formed input parse returns that sequence when it
\* is not empty, and raises the no-usable-colours ValueError, returning no
\* palette, when it is empty.
C1_ParseReturnsChunkColorsUnlessEmpty ==
  /\ WellFormed =>
       IF ExpectedPalette # <<>>
         THEN pc = "returned" /\ palette = ExpectedPalette
         ELSE /\ pc = "raised"
              /\ error = ValueError("NoColors")
              /\ palette = <<>>
  /\ (ParseDone /\ raw_lines = ScenarioFile) =>
       palette = << <<255, 0, 0>>, <<0, 0, 255>>, <<0, 0, 255>>, <<255, 0, 0>> >>

\* A well-formed file whose palette was returned with a chunk left out.
C1_Witness ==
  /\ WellFormed
  /\ pc = "returned"
  /\ palette = ExpectedPalette
  /\ Len(palette) >= 2
  /\ Len(palette) < Len(Chunks)

\* C2: parse raises whenever fewer than color_count + height records follow
\* the header record.
C2_TruncatedInputFails ==
  (HeaderRead /\ Len(records) - 1 < header.color_count + header.height)
    => pc = "raised"

MismatchedRows == {k \in PresentRows : Len(PixelRow(k)) # RowLength}

FirstMismatch == CHOOSE k \in MismatchedRows : \A m \in MismatchedRows : k <= m

\* C3 as stated, for chars_per_pixel >= 1: when a pixel row has the wrong
\* length parse raises the error that names the expected and the actual
\* length, and returns no palette.
C3_RowMismatchNamesLengths ==
  (HeaderRead /\ header.chars_per_pixel >= 1 /\ MismatchedRows # {}) =>
    /\ pc = "raised"
    /\ palette = <<>>
    /\ error = LengthMismatch(RowLength, Len(PixelRow(FirstMismatch)))

\* C3 amended: when a pixel row has the wrong length parse raises ValueError
\* and returns no palette; the error names the expected length and the length
\* of the first such row provided chars_per_pixel >= 1 and every colour value
\* of the table is a valid colour (otherwise an earlier row may raise first).
C3_RowMismatchRaises ==
  (HeaderRead /\ MismatchedRows # {}) =>
    /\ pc = "raised"
    /\ error.type = "ValueError"
    /\ palette = <<>>
    /\ (header.chars_per_pixel >= 1 /\ TableColorsValid) =>
         /\ error = LengthMismatch(RowLength, Len(PixelRow(FirstMismatch)))
         /\ row = FirstMismatch

\* The second row has the wrong length, after a first row that gave colours.
C3_Witness ==
  /\ HeaderRead
  /\ MismatchedRows # {}
  /\ FirstMismatch = 2
  /\ colors_list # <<>>
  /\ error.kind = "LengthMismatch"
  /\ palette = <<>>

\* The file's header line is one of the malformed headers.
HeaderMalformed ==
  /\ Len(raw_lines) >= 2
  /\ \E hdr \in BadHeaders : raw_lines[2] = Quoted(hdr)

\* C4: parse raises the bad-header error exactly when the first record is not
\* four integers, and then no colour entry and no pixel row has been processed.
C4_BadHeaderRaises ==
  ParseDone =>
    /\ (records # <<>> /\ HeaderMalformed) <=> error.kind = "BadHeader"
    /\ error.kind = "BadHeader" =>
         /\ pc = "raised"
         /\ error.type = "ValueError"
         /\ color_table = EmptyTable
         /\ colors_list = <<>>
         /\ row = 0
         /\ palette = <<>>

\* A header of five integers was refused, with colour entries and rows behind it.
C4_Witness ==
  /\ ParseDone
  /\ error.kind = "BadHeader"
  /\ Len(Split(records[1])) = 5
  /\ Len(records) >= 3

(***************************************************************************)
(* Properties of create_normalizer and map_values.                         *)
(***************************************************************************)
ApiDone == pc \in {"returned", "raised"}

CreateDone == ApiDone /\ call.op = "create_normalizer"

MapDone == ApiDone /\ call.op = "map_values"

Range(items) == {items[i] : i \in 1..Len(items)}

MinOf(items) == CHOOSE m \in Range(items) : \A e \in Range(items) : m <= e

MaxOf(items) == CHOOSE m \in Range(items) : \A e \in Range(items) : m >= e

\* The bound is a number the caller gave.
Given(bound) == bound.tag = "num"

\* The palette the call names.
CalledPalette == CUSTOM_COLORMAPS[Lower(call.colormap)]

\* floor(num / den * k) for 0 <= num <= den, den > 0
FloorOfScaled(num, den, k) ==
  CHOOSE q \in 0..k : q * den <= num * k /\ num * k < (q + 1) * den

Clamp(i, N) == IF i < 0 THEN 0 ELSE IF i > N - 1 THEN N - 1 ELSE i

\* The normalized position of the i-th value, as a fraction of PositionDen.
PositionNum(i) ==
  LET x == call.values[i]
  IN (IF x < norm.vmin THEN norm.vmin ELSE IF x > norm.vmax THEN norm.vmax ELSE x)
       - norm.vmin

PositionDen == norm.vmax - norm.vmin

\* C5 as stated: the colour of a value at position t is the palette entry at
\* index floor(t * (N - 1)), clamped to [0, N - 1].
C5_IndexIsFloorOfLastIndex ==
  (MapDone /\ pc = "returned") =>
    \A i \in 1..Len(call.values) :
      rgba[i] =
        Append(CalledPalette[
                 Clamp(FloorOfScaled(PositionNum(i), PositionDen,
                                     Len(CalledPalette) - 1),
                       Len(CalledPalette)) + 1], 255)

\* C5 amended: the colour of a value at position t in [0, 1] is the palette
\* entry at index floor(t * N), clamped to [0, N - 1].
C5_IndexIsFloorOfCount ==
  (MapDone /\ pc = "returned") =>
    /\ Len(rgba) = Len(call.values)
    /\ \A i \in 1..Len(call.values) :
         rgba[i] =
           Append(CalledPalette[
                    Clamp(FloorOfScaled(PositionNum(i), PositionDen,
                                        Len(CalledPalette)),
                          Len(CalledPalette)) + 1], 255)

\* A value in the middle of the range, mapped into a palette of two colours:
\* floor(t * N) = 1 and floor(t * (N - 1)) = 0.
C5_Witness ==
  /\ MapDone
  /\ pc = "returned"
  /\ Len(CalledPalette) = 2
  /\ \E i \in 1..Len(call.values) :
       /\ 2 * PositionNum(i) = PositionDen
       /\ rgba[i] = Append(CalledPalette[2], 255)

\* C6: with vmin < vmax given and autorange off, map_values([vmin, vmax])
\* returns the first and the last entry of the palette.
C6_EndpointsMapToEnds ==
  (/\ MapDone
   /\ ~call.autorange
   /\ Given(call.vmin) /\ Given(call.vmax)
   /\ call.vmin.val < call.vmax.val
   /\ call.values = <<call.vmin.val, call.vmax.val>>
   /\ Lower(call.colormap) \in DOMAIN CUSTOM_COLORMAPS)
    => /\ pc = "returned"
       /\ rgba = <<Append(CalledPalette[1], 255),
                   Append(CalledPalette[Len(CalledPalette)], 255)>>

\* The end points of [1, 3] mapped into a palette of three colours.
C6_Witness ==
  /\ MapDone
  /\ pc = "returned"
  /\ ~call.autorange
  /\ call.vmin = Num(1) /\ call.vmax = Num(3)
  /\ call.values = <<1, 3>>
  /\ Len(CalledPalette) = 3
  /\ rgba[1] # rgba[2]

\* The bounds create_normalizer arrives at, for data that is None or not empty:
\* a number given is kept, a parameter not passed has its default, None takes
\* the minimum / maximum of the data, or the default without data.
CreateVmin ==
  IF Given(call.vmin) THEN call.vmin.val
  ELSE IF call.vmin = None /\ call.data.given THEN MinOf(call.data.items)
  ELSE 0

CreateVmax ==
  IF Given(call.vmax) THEN call.vmax.val
  ELSE IF call.vmax = None /\ call.data.given THEN MaxOf(call.data.items)
  ELSE 1

MapVmin ==
  IF Given(call.vmin) THEN call.vmin.val
  ELSE IF call.autorange THEN MinOf(call.values)
  ELSE 0

MapVmax ==
  IF Given(call.vmax) THEN call.vmax.val
  ELSE IF call.autorange THEN MaxOf(call.values)
  ELSE 1

\* The call takes a bound from data that is empty.
EmptyDataRead ==
  \/ call.op = "create_normalizer" /\ call.data.given /\ call.data.items = <<>>
  \/ /\ call.op = "map_values"
     /\ call.autorange
     /\ ~(Given(call.vmin) /\ Given(call.vmax))
     /\ call.values = <<>>

ResultingVmin == IF call.op = "map_values" THEN MapVmin ELSE CreateVmin

ResultingVmax == IF call.op = "map_values" THEN MapVmax ELSE CreateVmax

\* C8: a call whose resulting bounds are equal raises ValueError, and every
\* Normalize object that is built has vmin # vmax.
C8_EqualBoundsRaise ==
  (CreateDone \/ MapDone) =>
    /\ norm.built => norm.vmin # norm.vmax
    /\ pc = "returned" => norm.built
    /\ (~EmptyDataRead /\ ResultingVmin = ResultingVmax) =>
         /\ pc = "raised"
         /\ error = ValueError("EqualBounds")
         /\ ~norm.built

\* map_values with autorange on values that are all equal has raised.
C8_Witness ==
  /\ MapDone
  /\ call.autorange
  /\ call.vmin = Omitted /\ call.vmax = None
  /\ call.values = <<2, 2>>
  /\ error = ValueError("EqualBounds")

\* C9: create_normalizer raises the empty-data error exactly when data is
\* supplied, is empty and at least one bound is unset; with both bounds given
\* and different it returns them, whatever data is.
C9_EmptyDataRaisesOnlyWhenNeeded ==
  CreateDone =>
    /\ error.kind = "EmptyData" <=>
         /\ call.data.given
         /\ call.data.items = <<>>
         /\ ~(Given(call.vmin) /\ Given(call.vmax))
    /\ (Given(call.vmin) /\ Given(call.vmax) /\ call.vmin.val # call.vmax.val) =>
         /\ pc = "returned"
         /\ norm.vmin = call.vmin.val
         /\ norm.vmax = call.vmax.val

\* C10: map_values normalizes with the bounds given, an unset bound being the
\* minimum / maximum of the values with autorange and 0 / 1 without; without
\* autorange, or with both bounds given, the values are not read for them.
C10_MapBounds ==
  MapDone =>
    /\ norm.built => (norm.vmin = MapVmin /\ norm.vmax = MapVmax /\ norm.clip)
    /\ norm.built <=> (~EmptyDataRead /\ MapVmin # MapVmax)
    /\ (~call.autorange \/ (Given(call.vmin) /\ Given(call.vmax))) =>
         /\ error.kind # "EmptyData"
         /\ norm.built =>
              /\ norm.vmin = IF Given(call.vmin) THEN call.vmin.val ELSE 0
              /\ norm.vmax = IF Given(call.vmax) THEN call.vmax.val ELSE 1

\* With autorange, vmin given and vmax unset: vmin is kept, vmax is max(values).
C10_Witness ==
  /\ MapDone
  /\ call.autorange
  /\ call.vmin = Num(1) /\ call.vmax = None
  /\ call.values = <<0, 3>>
  /\ norm = Normalize(1, 3, TRUE)
  /\ pc = "returned"

(***************************************************************************)
(* Properties of get_colormap and of the order of map_values' steps.       *)
(***************************************************************************)
\* The name the call gives is not a key of the registry in any letter case.
UnknownName == Lower(call.colormap) \notin DOMAIN CUSTOM_COLORMAPS

\* C11: map_values with a name that is not registered raises the not-found
\* error (KeyError), whatever the values, the bounds and autorange are.
C11_UnknownNameRaisesNotFound ==
  (MapDone /\ UnknownName) => (pc = "raised" /\ error.type = "KeyError")

GetDone == ApiDone /\ call.op = "get_colormap"

\* s and k are the same text up to the case of their letters.
SameUpToCase(s, k) ==
  /\ Len(s) = Len(k)
  /\ \A i \in 1..Len(s) :
       \/ s[i] = k[i]
       \/ \E j \in 1..26 : {s[i], k[i]} = {UPPERCASE[j], LOWERCASE[j]}

\* The registered keys the name spells, whatever the case of its letters.
KeysSpelled == {k \in DOMAIN CUSTOM_COLORMAPS : SameUpToCase(call.colormap, k)}

\* The sequence holds each registered name once, in ascending order.
AllNamesAscending(names) ==
  /\ {names[i] : i \in 1..Len(names)} = DOMAIN CUSTOM_COLORMAPS
  /\ \A i \in 1..(Len(names) - 1) : StrLess(names[i], names[i + 1])

\* C12: get_colormap returns the palette of the registered key the name
\* spells in any letter case; for a name that spells no registered key it
\* raises KeyError with all registered names, in ascending order, the order of
\* list_available_colormaps().
C12_GetIgnoresCase ==
  GetDone =>
    /\ \A k \in KeysSpelled :
         pc = "returned" /\ palette = CUSTOM_COLORMAPS[k]
    /\ KeysSpelled = {} =>
         /\ pc = "raised"
         /\ error.type = "KeyError"
         /\ error.name = call.colormap
         /\ error.available = list_available_colormaps
         /\ AllNamesAscending(error.available)
         /\ palette = <<>>

\* "VIRIDIS" has returned the palette registered as "viridis", which is not
\* the palette of "magma".
C12_Witness ==
  /\ GetDone
  /\ pc = "returned"
  /\ call.colormap = <<"V", "I", "R", "I", "D", "I", "S">>
  /\ palette = CUSTOM_COLORMAPS[<<"v", "i", "r", "i", "d", "i", "s">>]
  /\ palette # CUSTOM_COLORMAPS[MAGMA]

(***************************************************************************)
(* Properties of _load_all_colormaps.                                      *)
(***************************************************************************)
LoadDone == pc \in {"returned", "raised"} /\ call = NoCall /\ raw_lines = <<>>

\* The file is parsed into a palette.
Parses(f) == parse_xpm_file(f.lines).error = NoError

\* g comes before f in the order of the file names.
Before(g, f) == StrLess(g.stem, f.stem)

\* The files whose stem lowers to the key.
FilesOfKey(k) == {f \in COLORMAP_DIR : Lower(f.stem) = k}

\* The last of them in the order of the file names.
LastOfKey(k) ==
  CHOOSE f \in FilesOfKey(k) : \A g \in FilesOfKey(k) : g = f \/ Before(g, f)

\* The first file, in the order of the file names, that does not parse.
FirstBad ==
  CHOOSE f \in COLORMAP_DIR :
    /\ ~Parses(f)
    /\ \A g \in COLORMAP_DIR : Before(g, f) => Parses(g)

\* C13: the files are taken in the order of their names (the first one that
\* does not parse ends the load with its error); when all parse the registry
\* has one entry for each lowercased stem, holding the palette of the last
\* file, in that order, whose stem lowers to it.
C13_LastFileOfKeyWins ==
  (LoadDone /\ COLORMAP_DIR # {}) =>
    IF \A f \in COLORMAP_DIR : Parses(f)
      THEN /\ pc = "returned"
           /\ DOMAIN CUSTOM_COLORMAPS = {Lower(f.stem) : f \in COLORMAP_DIR}
           /\ \A k \in DOMAIN CUSTOM_COLORMAPS :
                CUSTOM_COLORMAPS[k] = parse_xpm_file(LastOfKey(k).lines).palette
      ELSE /\ pc = "raised"
           /\ error = parse_xpm_file(FirstBad.lines).error
           /\ CUSTOM_COLORMAPS = EmptyTable

\* "JET", "Jet" and "jet" hold three different palettes, and the registry has
\* that of "jet" under the one key "jet", next to "magma".
C13_Witness ==
  /\ LoadDone
  /\ pc = "returned"
  /\ Cardinality(COLORMAP_DIR) = 4
  /\ Cardinality(DOMAIN CUSTOM_COLORMAPS) = 2
  /\ \A f \in FilesOfKey(<<"j", "e", "t">>) :
       \A g \in FilesOfKey(<<"j", "e", "t">>) : f # g => f.lines # g.lines
  /\ \E f \in COLORMAP_DIR :
       /\ f.stem = <<"j", "e", "t">>
       /\ CUSTOM_COLORMAPS[<<"j", "e", "t">>] = parse_xpm_file(f.lines).palette

(***************************************************************************)
(* Properties of the bucketing of map_values.                              *)
(***************************************************************************)
\* The index of the palette entry returned for the i-th value; the entries of
\* a registered palette are different colours.
IndexReturned(i) ==
  CHOOSE k \in 0..(Len(CalledPalette) - 1) :
    rgba[i] = Append(CalledPalette[k + 1], 255)

StrictlyIncreasing(items) ==
  \A i \in 1..(Len(items) - 1) : items[i] < items[i + 1]

\* C14: for values that are strictly increasing and lie within [vmin, vmax],
\* vmin < vmax, the indices of the palette entries map_values returns are
\* non-decreasing in the order of the values, for every palette.
C14_IndicesNonDecreasing ==
  (/\ MapDone
   /\ ~UnknownName
   /\ ~EmptyDataRead
   /\ MapVmin < MapVmax
   /\ StrictlyIncreasing(call.values)
   /\ \A i \in 1..Len(call.values) :
        MapVmin <= call.values[i] /\ call.values[i] <= MapVmax)
    => /\ pc = "returned"
       /\ Len(rgba) = Len(call.values)
       /\ \A i \in 1..Len(rgba) :
            \E k \in 0..(Len(CalledPalette) - 1) :
              rgba[i] = Append(CalledPalette[k + 1], 255)
       /\ \A i \in 1..Len(rgba) : \A j \in 1..Len(rgba) :
            i < j => IndexReturned(i) <= IndexReturned(j)

\* Two increasing values inside the range that take different entries of a
\* palette of three colours.
C14_Witness ==
  /\ MapDone
  /\ pc = "returned"
  /\ Len(CalledPalette) = 3
  /\ call.vmin = Num(0) /\ call.vmax = Num(3)
  /\ call.values = <<1, 2>>
  /\ IndexReturned(1) = 1
  /\ IndexReturned(2) = 2

(***************************************************************************)
(* Properties of the records and of the colour table.                      *)
(***************************************************************************)
\* The line holds a string literal.
IsQuotedLine(line) == StartsWith(Strip(line, WHITESPACE), Q)

QuotedLines == SelectSeq(raw_lines, IsQuotedLine)

\* The text of the literal: what stands between the opening quote and the
\* closing one, the last quote of the line.
LiteralContent(line) ==
  LET text == Strip(line, WHITESPACE)
      closing == CHOOSE i \in 1..Len(text) :
                   text[i] = Q /\ \A j \in (i + 1)..Len(text) : text[j] # Q
  IN SubSeq(text, 2, IF closing = 1 THEN Len(text) ELSE closing - 1)

\* C15: the record of a quoted line is the text of its literal; no character
\* of the content is removed, so a symbol such as "," ";" "}" at the start or
\* the end of a literal stays in the record.
C15_RecordsKeepContent ==
  ParseDone =>
    records = [i \in 1..Len(QuotedLines) |-> LiteralContent(QuotedLines[i])]

\* The colour-table records that are present, at most color_count of them.
PresentEntries ==
  {k \in 1..header.color_count : 1 + k <= Len(records)}

ColorEntry(k) == records[1 + k]

\* The first chars_per_pixel characters of the record.
SymbolOf(entry) ==
  SubSeq(entry, 1,
         IF Len(entry) < header.chars_per_pixel THEN Len(entry)
                                                ELSE header.chars_per_pixel)

\* The whitespace-separated tokens that follow the symbol.
TokensOf(entry) ==
  Split(SubSeq(entry, Len(SymbolOf(entry)) + 1, Len(entry)))

\* "none" in any letter case
IsNone(token) ==
  /\ Len(token) = 4
  /\ token[1] \in {"n", "N"}
  /\ token[2] \in {"o", "O"}
  /\ token[3] \in {"n", "N"}
  /\ token[4] \in {"e", "E"}

\* The positions of the token that follows the first token "c".
AfterFirstC(tokens) ==
  {i \in 2..Len(tokens) :
     /\ tokens[i - 1] = <<"c">>
     /\ \A j \in 1..(i - 2) : tokens[j] # <<"c">>}

\* What the claim has the table hold for the record.
ValueOf(entry) ==
  LET tokens == TokensOf(entry)
  IN IF \E i \in AfterFirstC(tokens) : ~IsNone(tokens[i])
       THEN tokens[CHOOSE i \in AfterFirstC(tokens) : TRUE]
       ELSE NoColor

\* The last colour-table record with the symbol.
LastEntryOf(symbol) ==
  ColorEntry(CHOOSE k \in PresentEntries :
               /\ SymbolOf(ColorEntry(k)) = symbol
               /\ \A m \in PresentEntries :
                    SymbolOf(ColorEntry(m)) = symbol => m <= k)

\* C16: the colour table has the symbols of the colour-table records; a
\* symbol maps to the token after the first token "c" of its last record
\* when there is one and it is not "none" in any letter case, and to the
\* no-colour sentinel otherwise; the pixels take their colours from that
\* table.
C16_TableHoldsValueAfterC ==
  HeaderRead =>
    /\ DOMAIN color_table = {SymbolOf(ColorEntry(k)) : k \in PresentEntries}
    /\ \A s \in DOMAIN color_table : color_table[s] = ValueOf(LastEntryOf(s))
    /\ (pc = "returned" /\ WellFormed) => palette = ExpectedPalette

\* Two records for the symbol "a": the first names blue after the key "m"
\* and red after the key "c", the second says NONE; the pixel "a" is skipped.
C16_Witness ==
  /\ HeaderRead
  /\ header.color_count = 2
  /\ Len(records) = 4
  /\ ColorEntry(1) = <<"a", SP, "m", SP>> \o BLUE \o <<SP, "c", SP>> \o RED
  /\ ColorEntry(2) = <<"a", SP, "c", SP, "N", "O", "N", "E">>
  /\ PixelRow(1) = <<"a">>
  /\ color_table = (<<"a">> :> NoColor)
  /\ error = ValueError("NoColors")

(***************************************************************************)
(* Properties of inverted bounds.                                          *)
(***************************************************************************)
\* C17: create_normalizer refuses bounds only when they are equal; with
\* vmin > vmax, given or taken from the data (in map_values, from the values)
\* it returns the Normalize object with those bounds, so a Normalize object
\* that was built may have vmin > vmax.
C17_InvertedBoundsAccepted ==
  /\ (CreateDone /\ ~EmptyDataRead /\ CreateVmin > CreateVmax) =>
       /\ pc = "returned"
       /\ norm = Normalize(CreateVmin, CreateVmax, call.clip)
  /\ (MapDone /\ ~EmptyDataRead /\ MapVmin > MapVmax) =>
       /\ norm = Normalize(MapVmin, MapVmax, TRUE)
       /\ error.kind \notin {"EqualBounds", "EmptyData"}
  /\ ((CreateDone \/ MapDone) /\ error.kind = "EqualBounds") =>
       ResultingVmin = ResultingVmax

\* map_values with vmin = 3 and autorange on values whose maximum is 2: the
\* normalizer was built with vmin = 3, vmax = 2.
C17_Witness ==
  /\ MapDone
  /\ call.autorange
  /\ call.vmin = Num(3) /\ call.vmax = None
  /\ call.values = <<1, 2>>
  /\ norm = Normalize(3, 2, TRUE)
  /\ norm.vmin > norm.vmax

====
